---- MODULE Spec2Model ----
(***************************************************************************)
(* Model of address_book_bot.py: validated fields, Record, AddressBook,    *)
(* pickle persistence and the console command loop.                        *)
(*                                                                         *)
(* Python strings are sequences of characters (each character a TLA+       *)
(* string naming it), so that length, isdigit/isalpha and substring        *)
(* containment are computed, not assumed.                                  *)
(* An optional value (None or an object) is a sequence of length 0 or 1.   *)
(***************************************************************************)
EXTENDS Integers, Sequences, FiniteSets, TLC

VARIABLES data, file, gen, last, pc

vars == <<data, file, gen, last, pc>>

(***************************************************************************)
(* Bounds of the model                                                     *)
(***************************************************************************)
\* longest phone list a record is grown to
MaxPhones == 2
\* most pages drawn from one generator
MaxPages == 4

(***************************************************************************)
(* Characters and strings                                                  *)
(***************************************************************************)
DecimalChars == {"0", "1", "2", "3", "4", "5", "6", "7", "8", "9"}

\* characters str.isdigit() accepts that are not decimal digits (superscripts)
OtherDigitChars == {"sup2"}

\* characters str.isnumeric() accepts beyond str.isdigit() (vulgar fractions)
OtherNumericChars == {"frac12"}

AlphaChars ==
    {"a", "b", "c", "d", "e", "f", "g", "h", "i", "j", "k", "l", "m", "n", "o", "p",
     "q", "r", "s", "t", "u", "v", "w", "x", "y", "z", "A", "B"}

isdigit(s) == Len(s) > 0 /\ \A i \in 1..Len(s) : s[i] \in DecimalChars \cup OtherDigitChars

isnumeric(s) ==
    Len(s) > 0 /\ \A i \in 1..Len(s) :
        s[i] \in DecimalChars \cup OtherDigitChars \cup OtherNumericChars

isalpha(s) == Len(s) > 0 /\ \A i \in 1..Len(s) : s[i] \in AlphaChars

\* Python's `q in s` on strings: substring containment, case-sensitive
Contains(s, q) ==
    \E i \in 0..(Len(s) - Len(q)) : \A j \in 1..Len(q) : s[i + j] = q[j]

\* str.lower() on the model's alphabet
LowerChar(c) == CASE c = "A" -> "a" [] c = "B" -> "b" [] OTHER -> c

lower(s) == [i \in 1..Len(s) |-> LowerChar(s[i])]

(***************************************************************************)
(* Outcomes of a call: an exception (with its message) or a return value   *)
(***************************************************************************)
NoExc == "none"

Returned(tag, ret) == [exc |-> NoExc, msg |-> "", tag |-> tag, ret |-> ret]

Raised(exc, msg) == [exc |-> exc, msg |-> msg, tag |-> "raised", ret |-> <<>>]

PhoneFormatMsg == "Phone number should be a 10-digit number"

EditNotFoundMsg == "Phone number to be edited was not found"

(***************************************************************************)
(* Field, Name, Phone, Birthday                                            *)
(***************************************************************************)
PhoneLen == 10

\* Phone.validate_phone_format: TRUE when it raises ValueError
validate_phone_format_raises(value) ==
    (Len(value) > 0 /\ ~isdigit(value)) \/ Len(value) # PhoneLen

\* Phone(value): the constructor validates, then Field.__init__ stores
PhoneCtor(value) ==
    IF validate_phone_format_raises(value)
    THEN Raised("ValueError", PhoneFormatMsg)
    ELSE Returned("value", <<value>>)

\* Field.value setter: stores whatever it is given
SetValue(old_value, new_value) == new_value

\* Name(value): rejects a falsy value
NameCtor(value) ==
    IF Len(value) = 0
    THEN Raised("ValueError", "Name cannot be empty")
    ELSE Returned("value", <<value>>)

IsLeap(y) == (y % 4 = 0 /\ y % 100 # 0) \/ y % 400 = 0

DaysInMonth(y, m) ==
    CASE m \in {1, 3, 5, 7, 8, 10, 12} -> 31
      [] m \in {4, 6, 9, 11} -> 30
      [] OTHER -> IF IsLeap(y) THEN 29 ELSE 28

\* a date the datetime constructor / strptime accepts
ValidDate(y, m, d) ==
    /\ y \in 1..9999
    /\ m \in 1..12
    /\ d \in 1..DaysInMonth(y, m)

\* A birthday text "dd.mm.yyyy" is the triple <<dd, mm, yyyy>>; a text that
\* does not have that shape is the triple <<0, 0, 0>>.
\* Birthday.validate_birthday_format: TRUE when strptime raises ValueError
validate_birthday_format_raises(text) == ~ValidDate(text[3], text[2], text[1])

\* Birthday(value): validates, then Field.__init__ stores the text itself
\* (the datetime that validation parsed is dropped)
BirthdayCtor(text) ==
    IF validate_birthday_format_raises(text)
    THEN Raised("ValueError", "Birthday is not a date")
    ELSE Returned("value", <<[type |-> "str", text |-> text]>>)

(***************************************************************************)
(* Record                                                                  *)
(***************************************************************************)
\* Record(name, birthday): birthday is optional, a falsy one gives None
RecordCtor(name, birthday) ==
    IF NameCtor(name).exc # NoExc THEN NameCtor(name)
    ELSE IF birthday # <<>> /\ BirthdayCtor(birthday[1]).exc # NoExc
         THEN BirthdayCtor(birthday[1])
         ELSE Returned("value",
                  <<[name |-> name,
                     phones |-> <<>>,
                     birthday |-> IF birthday = <<>> THEN <<>>
                                  ELSE BirthdayCtor(birthday[1]).ret]>>)

\* index of the first phone whose value equals v, 0 when there is none
FirstIndex(phones, v) ==
    IF \E i \in 1..Len(phones) : phones[i] = v
    THEN CHOOSE i \in 1..Len(phones) :
             phones[i] = v /\ \A j \in 1..(i - 1) : phones[j] # v
    ELSE 0

RemoveAt(s, i) == [j \in 1..(Len(s) - 1) |-> IF j < i THEN s[j] ELSE s[j + 1]]

\* Record.add_phone
add_phone(phones, phone_number) ==
    IF PhoneCtor(phone_number).exc # NoExc
    THEN [phones |-> phones, out |-> PhoneCtor(phone_number)]
    ELSE [phones |-> Append(phones, PhoneCtor(phone_number).ret[1]),
          out |-> Returned("None", <<>>)]

RECURSIVE Without(_, _)
Without(phones, v) ==
    IF phones = <<>> THEN <<>>
    ELSE IF phones[1] = v THEN Without(Tail(phones), v)
    ELSE <<phones[1]>> \o Without(Tail(phones), v)

\* remove_phone that removes every phone equal to the number
remove_phone_all(phones, phone_number) ==
    [phones |-> Without(phones, phone_number), out |-> Returned("None", <<>>)]

\* Record.remove_phone
remove_phone(phones, phone_number) ==
    IF FirstIndex(phones, phone_number) = 0
    THEN [phones |-> phones, out |-> Returned("None", <<>>)]
    ELSE [phones |-> RemoveAt(phones, FirstIndex(phones, phone_number)),
          out |-> Returned("None", <<>>)]

\* Record.find_phone: every turn of the loop constructs Phone(phone_number)
find_phone(phones, phone_number) ==
    IF Len(phones) > 0 /\ PhoneCtor(phone_number).exc # NoExc
    THEN [phones |-> phones, out |-> PhoneCtor(phone_number)]
    ELSE IF FirstIndex(phones, phone_number) = 0
         THEN [phones |-> phones, out |-> Returned("None", <<>>)]
         ELSE [phones |-> phones,
               out |-> Returned("value",
                          <<[index |-> FirstIndex(phones, phone_number),
                             value |-> phones[FirstIndex(phones, phone_number)]]>>)]

\* edit_phone that rewrites every phone equal to old
edit_phone_all(phones, old_phone_number, new_phone_number) ==
    IF FirstIndex(phones, old_phone_number) = 0
    THEN [phones |-> phones, out |-> Raised("ValueError", EditNotFoundMsg)]
    ELSE [phones |-> [j \in 1..Len(phones) |->
                         IF phones[j] = old_phone_number THEN new_phone_number
                         ELSE phones[j]],
          out |-> Returned("None", <<>>)]

\* edit_phone that falls back to the first phone when old is not in the list
edit_phone_fallback(phones, old_phone_number, new_phone_number) ==
    IF Len(phones) = 0
    THEN [phones |-> phones, out |-> Raised("ValueError", EditNotFoundMsg)]
    ELSE IF FirstIndex(phones, old_phone_number) = 0
    THEN [phones |-> [phones EXCEPT ![1] = new_phone_number],
          out |-> Raised("ValueError", EditNotFoundMsg)]
    ELSE [phones |-> [phones EXCEPT ![FirstIndex(phones, old_phone_number)] =
                         new_phone_number],
          out |-> Returned("None", <<>>)]

\* Record.edit_phone
edit_phone(phones, old_phone_number, new_phone_number) ==
    IF FirstIndex(phones, old_phone_number) = 0
    THEN [phones |-> phones, out |-> Raised("ValueError", EditNotFoundMsg)]
    ELSE [phones |-> [phones EXCEPT ![FirstIndex(phones, old_phone_number)] =
                         SetValue(@, new_phone_number)],
          out |-> Returned("None", <<>>)]

\* datetime.toordinal
DaysBeforeYear(y) == (y - 1) * 365 + (y - 1) \div 4 - (y - 1) \div 100 + (y - 1) \div 400

RECURSIVE DaysBeforeMonth(_, _)
DaysBeforeMonth(y, m) ==
    IF m = 1 THEN 0 ELSE DaysBeforeMonth(y, m - 1) + DaysInMonth(y, m - 1)

Ordinal(y, m, d) == DaysBeforeYear(y) + DaysBeforeMonth(y, m) + d

\* Record.days_to_birthday; today is <<year, month, day>> of datetime.now().
\* Only a datetime has strftime: on the stored str the call raises.
days_to_birthday(birthday, today) ==
    IF birthday = <<>> THEN Returned("NotImplemented", <<>>)
    ELSE IF birthday[1].type # "datetime"
    THEN Raised("AttributeError", "'str' object has no attribute 'strftime'")
    ELSE LET day == birthday[1].text[1]
             month == birthday[1].text[2]
             year == today[1]
         IN IF ~ValidDate(year, month, day)
            THEN Raised("ValueError", "day is out of range for month")
            ELSE IF Ordinal(year, month, day) < Ordinal(today[1], today[2], today[3])
            THEN IF ~ValidDate(year + 1, month, day)
                 THEN Raised("ValueError", "day is out of range for month")
                 ELSE Returned("value",
                          <<Ordinal(year + 1, month, day)
                              - Ordinal(today[1], today[2], today[3])>>)
            ELSE Returned("value",
                     <<Ordinal(year, month, day)
                         - Ordinal(today[1], today[2], today[3])>>)

\* "; ".join(p.value for p in self.phones)
RECURSIVE JoinPhones(_)
JoinPhones(phones) ==
    IF phones = <<>> THEN <<>>
    ELSE IF Len(phones) = 1 THEN phones[1]
    ELSE phones[1] \o <<";", " ">> \o JoinPhones(Tail(phones))

\* Record.__str__: the f-string, as its template and the values put into it
record_str(rec) ==
    [text |-> "Contact name: {name}, phones: {phones}",
     args |-> <<rec.name, JoinPhones(rec.phones)>>]

(***************************************************************************)
(* AddressBook: self.data is an insertion-ordered dict, modelled as the    *)
(* sequence of its items <<[key, rec], ...>> with pairwise distinct keys   *)
(***************************************************************************)
KeyIndex(d, name) ==
    IF \E i \in 1..Len(d) : d[i].key = name
    THEN CHOOSE i \in 1..Len(d) : d[i].key = name
    ELSE 0

\* add_record that keeps the phones of a record already under the name
add_record_merge(d, record) ==
    IF KeyIndex(d, record.name) = 0
    THEN Append(d, [key |-> record.name, rec |-> record])
    ELSE [d EXCEPT ![KeyIndex(d, record.name)] =
             [key |-> record.name,
              rec |-> [record EXCEPT !.phones = d[KeyIndex(d, record.name)].rec.phones \o @]]]

\* add_record that files the record under the lower-cased name
add_record_lower(d, record) ==
    IF KeyIndex(d, lower(record.name)) = 0
    THEN Append(d, [key |-> lower(record.name), rec |-> record])
    ELSE [d EXCEPT ![KeyIndex(d, lower(record.name))] =
             [key |-> lower(record.name), rec |-> record]]

\* AddressBook.add_record: dict assignment keeps the position of a present key
add_record(d, record) ==
    IF KeyIndex(d, record.name) = 0
    THEN Append(d, [key |-> record.name, rec |-> record])
    ELSE [d EXCEPT ![KeyIndex(d, record.name)] = [key |-> record.name, rec |-> record]]

\* AddressBook.find
find(d, name) == IF KeyIndex(d, name) # 0 THEN <<d[KeyIndex(d, name)].rec>> ELSE <<>>

\* AddressBook.delete
delete(d, name) == IF KeyIndex(d, name) # 0 THEN RemoveAt(d, KeyIndex(d, name)) ELSE d

RECURSIVE SelectRecords(_, _)
SelectRecords(d, query) ==
    IF d = <<>> THEN <<>>
    ELSE IF Contains(d[1].rec.name, query)
            \/ \E i \in 1..Len(d[1].rec.phones) : Contains(d[1].rec.phones[i], query)
         THEN <<d[1].rec>> \o SelectRecords(Tail(d), query)
         ELSE SelectRecords(Tail(d), query)

RECURSIVE SelectByName(_, _)
SelectByName(d, query) ==
    IF d = <<>> THEN <<>>
    ELSE IF Contains(d[1].rec.name, query)
         THEN <<d[1].rec>> \o SelectByName(Tail(d), query)
         ELSE SelectByName(Tail(d), query)

\* search that looks at names only
search_names_only(d, query) == SelectByName(d, query)

\* AddressBook.search
search(d, query) == SelectRecords(d, query)

(***************************************************************************)
(* AddressBook.iterate: a generator.  Its body starts at the first next(). *)
(***************************************************************************)
DefaultPageSize == 5

NoGen == [state |-> "none", size |-> 0, keys |-> <<>>, records |-> 0,
          all_records |-> 0, pages |-> <<>>]

\* calling iterate(records_per_iteration) only creates the generator object
iterate(records_per_iteration) ==
    [state |-> "created", size |-> records_per_iteration, keys |-> <<>>,
     records |-> 0, all_records |-> 0, pages |-> <<>>]

Keys(d) == [i \in 1..Len(d) |-> d[i].key]

Min(a, b) == IF a < b THEN a ELSE b

\* range(lo, hi) as a sequence
Range(lo, hi) == [i \in 1..(IF hi > lo THEN hi - lo ELSE 0) |-> lo + i - 1]

\* the list comprehension of the yield: self.data[keys[i]] for i in range(...)
Page(d, g) ==
    LET idx == Range(g.records, Min(g.records + g.size, g.all_records))
    IN [k \in 1..Len(idx) |-> d[KeyIndex(d, g.keys[idx[k] + 1])].rec]

\* the loop test and the yield, from a generator positioned at the loop head
LoopHead(d, g) ==
    IF g.records < g.all_records
    THEN [g EXCEPT !.state = "suspended", !.pages = Append(@, Page(d, g))]
    ELSE [g EXCEPT !.state = "exhausted"]

\* next(generator) whose cursor advances by one record whatever the page size
gen_next_by_one(d, g) ==
    IF g.state = "created"
    THEN LoopHead(d, [g EXCEPT !.keys = Keys(d), !.records = 0,
                               !.all_records = Len(Keys(d))])
    ELSE LoopHead(d, [g EXCEPT !.records = @ + 1])

\* next(generator): run the body up to the next yield or to its end
gen_next(d, g) ==
    IF g.state = "created"
    THEN LoopHead(d, [g EXCEPT !.keys = Keys(d), !.records = 0,
                               !.all_records = Len(Keys(d))])
    ELSE LoopHead(d, [g EXCEPT !.records = @ + g.size])

(***************************************************************************)
(* Persistence: the pickle stream is a sequence of tokens, the protocol    *)
(* header, one frame holding the dict items, and the STOP opcode.          *)
(***************************************************************************)
NoFile == [exists |-> FALSE, bytes |-> <<>>]

Tok(op, v) == [op |-> op, v |-> v]

RECURSIVE DumpItems(_)
DumpItems(d) ==
    IF d = <<>> THEN <<>>
    ELSE <<Tok("KEY", <<d[1].key>>), Tok("RECORD", <<d[1].rec>>)>> \o DumpItems(Tail(d))

\* pickle.dump(self.data, fh)
dump(d) ==
    <<Tok("PROTO", <<>>), Tok("VERSION", <<>>), Tok("FRAME", <<>>), Tok("EMPTY_DICT", <<>>)>>
        \o DumpItems(d) \o <<Tok("STOP", <<>>)>>

RECURSIVE LoadItems(_)
LoadItems(toks) ==
    IF Len(toks) < 2 THEN <<>>
    ELSE <<[key |-> toks[1].v[1], rec |-> toks[2].v[1]]>> \o LoadItems(Tail(Tail(toks)))

HeaderLen == 4

\* pickle.load(fh): an end of input where an opcode is expected is EOFError,
\* a short read inside the protocol header or the frame is UnpicklingError
load(bytes) ==
    IF Len(bytes) = 0 \/ Len(bytes) = 2 THEN Raised("EOFError", "Ran out of input")
    ELSE IF Len(bytes) < HeaderLen + 1 \/ bytes[Len(bytes)].op # "STOP"
    THEN Raised("UnpicklingError", "pickle data was truncated")
    ELSE Returned("value", LoadItems(SubSeq(bytes, HeaderLen + 1, Len(bytes) - 1)))

\* AddressBook.write_to_file: open(filename, "wb") and dump
write_to_file(d) == [exists |-> TRUE, bytes |-> dump(d)]

\* read_contacts_from_file that forgets to hand the loaded dict to the new book
read_contacts_from_file_forgets(f) ==
    IF ~f.exists THEN Returned("AddressBook", <<>>)
    ELSE IF load(f.bytes).exc = NoExc THEN Returned("AddressBook", <<>>)
    ELSE IF load(f.bytes).exc \in {"FileNotFoundError", "EOFError"}
    THEN Returned("AddressBook", <<>>)
    ELSE load(f.bytes)

\* AddressBook.read_contacts_from_file; the returned book is the value in ret
read_contacts_from_file(f) ==
    IF ~f.exists THEN Returned("AddressBook", <<>>)
    ELSE IF load(f.bytes).exc = NoExc THEN Returned("AddressBook", load(f.bytes).ret)
    ELSE IF load(f.bytes).exc \in {"FileNotFoundError", "EOFError"}
    THEN Returned("AddressBook", <<>>)
    ELSE load(f.bytes)

(***************************************************************************)
(* Command handlers.  A handler's result string is its format template     *)
(* together with the values formatted into it; a handler call yields the   *)
(* book, the file and the outcome (a result string or an uncaught error).  *)
(***************************************************************************)
Str(text, args) == [text |-> text, args |-> args]

Handled(d, f, text, args) == [data |-> d, file |-> f, out |-> Returned("str", <<Str(text, args)>>)]

Uncaught(d, f, exc, msg) == [data |-> d, file |-> f, out |-> Raised(exc, msg)]

\* errors_commands.inner when func(*args) raises TypeError on the arity
ArityError(d, f) == Handled(d, f, "Invalid number of arguments.", <<>>)

\* hello_user: takes no argument and is not decorated
hello_user(d, f, args) ==
    IF Len(args) # 0 THEN Uncaught(d, f, "TypeError", "takes 0 positional arguments")
    ELSE Handled(d, f, "How can I help you?", <<>>)

\* farewell: takes no argument and is not decorated
farewell(d, f, args) ==
    IF Len(args) # 0 THEN Uncaught(d, f, "TypeError", "takes 0 positional arguments")
    ELSE Handled(d, f, "Good bye!", <<>>)

\* add_contact that appends the phone to a contact already in the book
add_contact_append(d, f, args) ==
    IF Len(args) # 2 THEN ArityError(d, f)
    ELSE LET name == args[1]
             phone == args[2]
         IN IF ~isalpha(name) \/ ~isnumeric(phone) THEN Handled(d, f, "", <<>>)
            ELSE IF RecordCtor(name, <<>>).exc # NoExc
            THEN Handled(d, f, RecordCtor(name, <<>>).msg, <<>>)
            ELSE IF add_phone(<<>>, phone).out.exc # NoExc
            THEN Handled(d, f, add_phone(<<>>, phone).out.msg, <<>>)
            ELSE IF find(d, name) # <<>>
            THEN Handled([d EXCEPT ![KeyIndex(d, name)].rec.phones = Append(@, phone)],
                         f, "Contact {name} added.", <<name>>)
            ELSE Handled(add_record(d, [RecordCtor(name, <<>>).ret[1] EXCEPT
                                           !.phones = add_phone(<<>>, phone).phones]),
                         f, "Contact {name} added.", <<name>>)

\* add_contact(name, phone); `except Exception` returns str(err)
add_contact(d, f, args) ==
    IF Len(args) # 2 THEN ArityError(d, f)
    ELSE LET name == args[1]
             phone == args[2]
         IN IF ~isalpha(name) \/ ~isnumeric(phone) THEN Handled(d, f, "", <<>>)
            ELSE IF RecordCtor(name, <<>>).exc # NoExc
            THEN Handled(d, f, RecordCtor(name, <<>>).msg, <<>>)
            ELSE IF add_phone(<<>>, phone).out.exc # NoExc
            THEN Handled(d, f, add_phone(<<>>, phone).out.msg, <<>>)
            ELSE Handled(add_record(d, [RecordCtor(name, <<>>).ret[1] EXCEPT
                                           !.phones = add_phone(<<>>, phone).phones]),
                         f, "Contact {name} added.", <<name>>)

\* change_phone(name, phone); str(KeyError(m)) is repr(m), quotes included
change_phone(d, f, args) ==
    IF Len(args) # 2 THEN ArityError(d, f)
    ELSE LET name == args[1]
             phone == args[2]
             record == find(d, name)
         IN IF record = <<>> THEN Handled(d, f, "'Contact not found.'", <<>>)
            ELSE IF ~isnumeric(phone) THEN Handled(d, f, "Invalid phone number.", <<>>)
            ELSE IF Len(record[1].phones) = 0
            THEN Handled(d, f, "list index out of range", <<>>)
            ELSE LET e == edit_phone(record[1].phones, record[1].phones[1], phone)
                     d2 == [d EXCEPT ![KeyIndex(d, name)].rec.phones = e.phones]
                 IN IF e.out.exc # NoExc THEN Handled(d, f, e.out.msg, <<>>)
                    ELSE Handled(d2, write_to_file(d2), "Phone {name} changed.", <<name>>)

\* show_phone(name)
show_phone(d, f, args) ==
    IF Len(args) # 1 THEN ArityError(d, f)
    ELSE LET name == args[1]
             record == find(d, name)
         IN IF record = <<>> THEN Handled(d, f, "'Contact not found.'", <<>>)
            ELSE IF Len(record[1].phones) = 0
            THEN Handled(d, f, "list index out of range", <<>>)
            ELSE Handled(d, f, "The phone {name} is {phone}", <<name, record[1].phones[1]>>)

\* show_all()
show_all(d, f, args) ==
    IF Len(args) # 0 THEN ArityError(d, f)
    ELSE IF Len(d) = 0 THEN Handled(d, f, "No contacts found.", <<>>)
    ELSE IF \E i \in 1..Len(d) : Len(d[i].rec.phones) = 0
    THEN Handled(d, f, "list index out of range", <<>>)
    ELSE Handled(d, f, "{name}: {phone} lines",
                 [i \in 1..Len(d) |-> <<d[i].key, d[i].rec.phones[1]>>])

\* command words, as strings of characters
W_hello == <<"h", "e", "l", "l", "o">>
W_add == <<"a", "d", "d">>
W_change == <<"c", "h", "a", "n", "g", "e">>
W_phone == <<"p", "h", "o", "n", "e">>
W_show == <<"s", "h", "o", "w">>
W_all == <<"a", "l", "l">>
W_good == <<"g", "o", "o", "d">>
W_bye == <<"b", "y", "e">>
W_close == <<"c", "l", "o", "s", "e">>
W_exit == <<"e", "x", "i", "t">>

Joined(a, b) == a \o <<" ">> \o b

\* the keys of users_commands
CommandKeys ==
    {W_hello, W_add, W_change, W_phone, Joined(W_show, W_all), Joined(W_good, W_bye),
     W_close, W_exit}

\* users_commands[key](*args)
Dispatch(key, d, f, args) ==
    CASE key = W_hello -> hello_user(d, f, args)
      [] key = W_add -> add_contact(d, f, args)
      [] key = W_change -> change_phone(d, f, args)
      [] key = W_phone -> show_phone(d, f, args)
      [] key = Joined(W_show, W_all) -> show_all(d, f, args)
      [] OTHER -> farewell(d, f, args)

\* parser_command(user_command), user_command a non-empty token list
parser_command(d, f, user_command) ==
    LET command == user_command[1]
    IN IF command \in CommandKeys
       THEN Dispatch(command, d, f, Tail(user_command))
       ELSE IF Len(user_command) = 2
       THEN IF Joined(user_command[1], user_command[2]) \in CommandKeys
            THEN Dispatch(Joined(user_command[1], user_command[2]), d, f, <<>>)
            ELSE Uncaught(d, f, "UnboundLocalError", "parser_result")
       ELSE Handled(d, f, "Invalid command.", <<>>)

\* a turn of main's loop that exits without saving
main_turn_no_save(d, f, tokens) ==
    LET user_command == [i \in 1..Len(tokens) |-> lower(tokens[i])]
        r == parser_command(d, f, user_command)
    IN IF Len(user_command) = 0
       THEN [data |-> d, file |-> f, out |-> Returned("continue", <<>>), pc |-> "prompt"]
       ELSE IF r.out.exc # NoExc
       THEN [data |-> r.data, file |-> r.file, out |-> r.out, pc |-> "crashed"]
       ELSE IF r.out.ret[1].text = "Good bye!" /\ r.out.ret[1].args = <<>>
       THEN [data |-> r.data, file |-> r.file, out |-> r.out, pc |-> "exited"]
       ELSE [data |-> r.data, file |-> r.file, out |-> r.out, pc |-> "prompt"]

\* one turn of main's loop on the token list of input(...).lower().split():
\* the command's effect, then the save and sys.exit() on "Good bye!"
main_turn(d, f, tokens) ==
    LET user_command == [i \in 1..Len(tokens) |-> lower(tokens[i])]
        r == parser_command(d, f, user_command)
    IN IF Len(user_command) = 0
       THEN [data |-> d, file |-> f, out |-> Returned("continue", <<>>), pc |-> "prompt"]
       ELSE IF r.out.exc # NoExc
       THEN [data |-> r.data, file |-> r.file, out |-> r.out, pc |-> "crashed"]
       ELSE IF r.out.ret[1].text = "Good bye!" /\ r.out.ret[1].args = <<>>
       THEN [data |-> r.data, file |-> write_to_file(r.data), out |-> r.out, pc |-> "exited"]
       ELSE [data |-> r.data, file |-> r.file, out |-> r.out, pc |-> "prompt"]

(***************************************************************************)
(* Inputs                                                                  *)
(***************************************************************************)
An == <<"A", "n">>
Bo == <<"B", "o">>
Xy == <<"x", "y">>
an == <<"a", "n">>
bo == <<"b", "o">>
EmptyStr == <<>>

P1 == <<"1", "2", "3", "4", "5", "6", "7", "8", "9", "0">>
P2 == <<"0", "9", "8", "7", "6", "5", "4", "3", "2", "1">>
Short == <<"1", "2", "3">>
Alpha10 == <<"1", "2", "3", "4", "5", "a", "b", "x", "y", "n">>
Sup10 == <<"1", "2", "3", "4", "5", "6", "7", "8", "9", "sup2">>
Frac10 == <<"1", "2", "3", "4", "5", "6", "7", "8", "9", "frac12">>

\* birthday texts dd.mm.yyyy: 15.01.1990, 05.01.1990, 29.02.2000, 31.02.1990
B_15_01 == <<15, 1, 1990>>
B_05_01 == <<5, 1, 1990>>
B_29_02 == <<29, 2, 2000>>
B_31_02 == <<31, 2, 1990>>

\* values of datetime.now(), <<year, month, day>>
Todays == {<<2024, 1, 10>>, <<2024, 1, 15>>, <<2024, 2, 29>>, <<2023, 12, 31>>}

(***************************************************************************)
(* State                                                                   *)
(*   data  the AddressBook's dict                                          *)
(*   file  the file "my_address_book"                                      *)
(*   gen   the generator returned by the latest iterate call               *)
(*   last  the latest call: operation, arguments, outcome                  *)
(*   pc    "lib" when the classes are driven directly, else main's place   *)
(***************************************************************************)
Call(op, args, out) == [op |-> op, args |-> args, out |-> out]

NoCall == Call("none", <<>>, Returned("None", <<>>))

InitLib ==
    /\ data = <<>>
    /\ file = NoFile
    /\ gen = NoGen
    /\ last = NoCall
    /\ pc = "lib"

InitMain ==
    /\ data = <<>>
    /\ file = NoFile
    /\ gen = NoGen
    /\ last = NoCall
    /\ pc = "start"

\* a generator is consumed and dropped before the book is used again
Idle == pc = "lib" /\ gen.state = "none"

SetPhones(d, name, phones) == [d EXCEPT ![KeyIndex(d, name)].rec.phones = phones]

(***************************************************************************)
(* Actions on the classes; N, B, P, Q, T, S are the sets inputs come from  *)
(***************************************************************************)
\* book.add_record(Record(name, birthday))
DoAddRecord(N, B) ==
    /\ Idle
    /\ \E name \in N, birthday \in B :
          IF RecordCtor(name, birthday).exc # NoExc
          THEN /\ data' = data
               /\ last' = Call("Record", <<name, birthday>>, RecordCtor(name, birthday))
          ELSE /\ data' = add_record(data, RecordCtor(name, birthday).ret[1])
               /\ last' = Call("add_record", <<name, birthday>>, Returned("None", <<>>))
    /\ UNCHANGED <<file, gen, pc>>

\* book.delete(name)
DoDelete(N) ==
    /\ Idle
    /\ \E name \in N :
          /\ data' = delete(data, name)
          /\ last' = Call("delete", <<name>>, Returned("None", <<>>))
    /\ UNCHANGED <<file, gen, pc>>

\* book.find(name)
DoFind(N) ==
    /\ Idle
    /\ \E name \in N :
          last' = Call("find", <<name>>,
                       Returned(IF find(data, name) = <<>> THEN "None" ELSE "value",
                                find(data, name)))
    /\ UNCHANGED <<data, file, gen, pc>>

\* book.find(name).add_phone(phone_number)
DoAddPhone(N, P) ==
    /\ Idle
    /\ \E name \in N, phone_number \in P :
          /\ find(data, name) # <<>>
          /\ Len(find(data, name)[1].phones) < MaxPhones
          /\ data' = SetPhones(data, name,
                        add_phone(find(data, name)[1].phones, phone_number).phones)
          /\ last' = Call("add_phone", <<name, phone_number>>,
                        add_phone(find(data, name)[1].phones, phone_number).out)
    /\ UNCHANGED <<file, gen, pc>>

\* book.find(name).remove_phone(phone_number)
DoRemovePhone(N, P) ==
    /\ Idle
    /\ \E name \in N, phone_number \in P :
          /\ find(data, name) # <<>>
          /\ data' = SetPhones(data, name,
                        remove_phone(find(data, name)[1].phones, phone_number).phones)
          /\ last' = Call("remove_phone", <<name, phone_number>>,
                        remove_phone(find(data, name)[1].phones, phone_number).out)
    /\ UNCHANGED <<file, gen, pc>>

\* book.find(name).find_phone(phone_number)
DoFindPhone(N, P) ==
    /\ Idle
    /\ \E name \in N, phone_number \in P :
          /\ find(data, name) # <<>>
          /\ data' = SetPhones(data, name,
                        find_phone(find(data, name)[1].phones, phone_number).phones)
          /\ last' = Call("find_phone", <<name, phone_number>>,
                        find_phone(find(data, name)[1].phones, phone_number).out)
    /\ UNCHANGED <<file, gen, pc>>

\* book.find(name).edit_phone(old_phone_number, new_phone_number)
DoEditPhone(N, P, PNew) ==
    /\ Idle
    /\ \E name \in N, old_phone_number \in P, new_phone_number \in PNew :
          /\ find(data, name) # <<>>
          /\ data' = SetPhones(data, name,
                        edit_phone(find(data, name)[1].phones,
                                   old_phone_number, new_phone_number).phones)
          /\ last' = Call("edit_phone", <<name, old_phone_number, new_phone_number>>,
                        edit_phone(find(data, name)[1].phones,
                                   old_phone_number, new_phone_number).out)
    /\ UNCHANGED <<file, gen, pc>>

\* book.find(name).days_to_birthday(), with datetime.now() on the day today
DoDaysToBirthday(N, T) ==
    /\ Idle
    /\ \E name \in N, today \in T :
          /\ find(data, name) # <<>>
          /\ last' = Call("days_to_birthday", <<name, today>>,
                        days_to_birthday(find(data, name)[1].birthday, today))
    /\ UNCHANGED <<data, file, gen, pc>>

\* book.search(query)
DoSearch(Q) ==
    /\ Idle
    /\ \E query \in Q :
          last' = Call("search", <<query>>, Returned("value", search(data, query)))
    /\ UNCHANGED <<data, file, gen, pc>>

\* g = book.iterate(records_per_iteration)
DoIterate(S) ==
    /\ Idle
    /\ \E records_per_iteration \in S :
          /\ gen' = iterate(records_per_iteration)
          /\ last' = Call("iterate", <<records_per_iteration>>, Returned("generator", <<>>))
    /\ UNCHANGED <<data, file, pc>>

\* next(g)
DoNext ==
    /\ pc = "lib"
    /\ gen.state \in {"created", "suspended"}
    /\ Len(gen.pages) < MaxPages
    /\ gen' = gen_next(data, gen)
    /\ last' = Call("next", <<>>,
                    IF gen'.state = "exhausted"
                    THEN Raised("StopIteration", "")
                    ELSE Returned("page", <<gen'.pages[Len(gen'.pages)]>>))
    /\ UNCHANGED <<data, file, pc>>

\* the consumer drops g, exhausted or not
DoClose ==
    /\ pc = "lib"
    /\ gen.state # "none"
    /\ gen' = NoGen
    /\ last' = Call("close", <<>>, Returned("None", <<>>))
    /\ UNCHANGED <<data, file, pc>>

\* book.write_to_file("my_address_book")
DoWrite ==
    /\ Idle
    /\ file' = write_to_file(data)
    /\ last' = Call("write_to_file", <<>>, Returned("None", <<>>))
    /\ UNCHANGED <<data, gen, pc>>

\* book = AddressBook.read_contacts_from_file("my_address_book")
DoRead ==
    /\ Idle
    /\ data' = IF read_contacts_from_file(file).exc = NoExc
               THEN read_contacts_from_file(file).ret
               ELSE data
    /\ last' = Call("read_contacts_from_file", <<>>, read_contacts_from_file(file))
    /\ UNCHANGED <<file, gen, pc>>

\* a write_to_file that is cut short leaves a prefix of the stream
Truncate ==
    /\ pc \in {"lib", "exited", "crashed"}
    /\ file.exists
    /\ \E k \in 0..(Len(file.bytes) - 1) :
          file' = [file EXCEPT !.bytes = SubSeq(file.bytes, 1, k)]
    /\ last' = Call("truncate", <<>>, Returned("None", <<>>))
    /\ UNCHANGED <<data, gen, pc>>

\* the file is removed between two uses
Remove ==
    /\ pc \in {"lib", "exited", "crashed"}
    /\ file.exists
    /\ file' = NoFile
    /\ last' = Call("remove", <<>>, Returned("None", <<>>))
    /\ UNCHANGED <<data, gen, pc>>

\* add_contact(name, phone) called on the module's book
DoAddContact(N, P) ==
    /\ Idle
    /\ \E name \in N, phone \in P :
          /\ data' = add_contact(data, file, <<name, phone>>).data
          /\ last' = Call("add_contact", <<name, phone>>,
                        add_contact(data, file, <<name, phone>>).out)
    /\ UNCHANGED <<file, gen, pc>>

(***************************************************************************)
(* Actions of main                                                         *)
(***************************************************************************)
\* main up to the loop: the book is read from the file
MainStart ==
    /\ pc = "start"
    /\ data' = IF read_contacts_from_file(file).exc = NoExc
               THEN read_contacts_from_file(file).ret
               ELSE data
    /\ pc' = IF read_contacts_from_file(file).exc = NoExc THEN "prompt" ELSE "crashed"
    /\ last' = Call("read_contacts_from_file", <<>>, read_contacts_from_file(file))
    /\ UNCHANGED <<file, gen>>

\* one turn of the loop on the line the user typed
MainTurn(Lines) ==
    /\ pc = "prompt"
    /\ \E tokens \in Lines :
          /\ data' = main_turn(data, file, tokens).data
          /\ file' = main_turn(data, file, tokens).file
          /\ pc' = main_turn(data, file, tokens).pc
          /\ last' = Call("command", tokens, main_turn(data, file, tokens).out)
    /\ UNCHANGED gen

\* the program is started again: a new process with an empty module state
MainRestart ==
    /\ pc \in {"exited", "crashed"}
    /\ pc' = "start"
    /\ data' = <<>>
    /\ last' = NoCall
    /\ UNCHANGED <<file, gen>>

(***************************************************************************)
(* Specifications                                                          *)
(***************************************************************************)
RecordNames == {An}
RecordPhones == {P1, P2, Short, Alpha10}
RecordBirthdays == {<<>>, <<B_15_01>>, <<B_05_01>>, <<B_29_02>>, <<B_31_02>>}

\* one Record and its phone list
Next ==
    \/ DoAddRecord(RecordNames \cup {EmptyStr}, RecordBirthdays)
    \/ DoDelete(RecordNames)
    \/ DoAddPhone(RecordNames, RecordPhones)
    \/ DoRemovePhone(RecordNames, RecordPhones)
    \/ DoFindPhone(RecordNames, RecordPhones)
    \/ DoEditPhone(RecordNames, RecordPhones, RecordPhones)
    \/ DoDaysToBirthday(RecordNames, Todays)

Spec == InitLib /\ [][Next]_vars

BookNames == {An, Bo}
BookPhones == {P1, P2}
BookBirthdays == {<<>>, <<B_15_01>>}
Queries == {<<>>, <<"n">>, <<"A">>, <<"a">>, <<"B", "o">>, <<"1", "2">>, <<"9">>, P1}

\* an AddressBook of several records: lookup and search
NextBook ==
    \/ DoAddRecord(BookNames, BookBirthdays)
    \/ DoDelete(BookNames)
    \/ DoFind(BookNames)
    \/ DoAddPhone(BookNames, BookPhones)
    \/ DoRemovePhone(BookNames, BookPhones)
    \/ DoSearch(Queries)

SpecBook == InitLib /\ [][NextBook]_vars

IterNames == {An, Bo, Xy}
PageSizes == {-1, 0, 1, 2, 3, DefaultPageSize}

\* paginated iteration
NextIter ==
    \/ DoAddRecord(IterNames, {<<>>})
    \/ DoDelete(IterNames)
    \/ DoAddPhone({An}, {P1})
    \/ DoIterate(PageSizes)
    \/ DoNext
    \/ DoClose

SpecIter == InitLib /\ [][NextIter]_vars

\* saving and loading
NextPersist ==
    \/ DoAddRecord({An}, {<<>>})
    \/ DoAddRecord({Bo}, BookBirthdays)
    \/ DoDelete(BookNames)
    \/ DoAddPhone({An}, BookPhones)
    \/ DoEditPhone({An}, {P1}, {Short})
    \/ DoRemovePhone({An}, {P2})
    \/ DoWrite
    \/ DoRead
    \/ Truncate
    \/ Remove

SpecPersist == InitLib /\ [][NextPersist]_vars

ContactNames == {An, Bo, Short}
ContactPhones == {P1, P2, Short}

\* the add handler next to the book's own operations
NextContacts ==
    \/ DoAddContact(ContactNames, ContactPhones)
    \/ DoAddRecord(BookNames, BookBirthdays)
    \/ DoAddPhone(BookNames, BookPhones)
    \/ DoDelete(BookNames)
    \/ DoFind(BookNames \cup {Xy})

SpecContacts == InitLib /\ [][NextContacts]_vars

Lines ==
    {<<>>, <<W_hello>>, <<W_hello, Xy>>, <<W_show, W_all>>, <<W_show>>,
     <<W_good, W_bye>>, <<W_close>>, <<W_exit>>, <<W_exit, Xy>>,
     <<Xy>>, <<Xy, Xy>>, <<Xy, Xy, Xy>>,
     <<W_add, An>>, <<W_add, P1, P1>>, <<W_add, an, Sup10>>, <<W_add, an, Frac10>>, <<W_change, an>>, <<W_change, an, Alpha10>>,
     <<W_phone>>}
      \cup {<<W_add, n, p>> : n \in {An, bo}, p \in {P1, P2, Short}}
      \cup {<<W_change, n, p>> : n \in {an, bo}, p \in {P2, Short}}
      \cup {<<W_phone, n>> : n \in {an, bo}}

\* the console program, run after run
NextMain ==
    \/ MainStart
    \/ MainTurn(Lines)
    \/ MainRestart
    \/ Truncate
    \/ Remove

SpecMain == InitMain /\ [][NextMain]_vars

(***************************************************************************)
(* Properties                                                              *)
(***************************************************************************)
\* the Phone predicate of the data model: 10 characters, all decimal digits
PhonePredicate(value) ==
    Len(value) = 10 /\ \A k \in 1..Len(value) : value[k] \in DecimalChars

\* the record stored under name (the action that set `last` found it)
RecordOf(name) == find(data, name)[1]

\* C1: after any sequence of add_phone, edit_phone and remove_phone calls,
\* every Phone in a record's list has a value of exactly 10 decimal digits;
\* edit_phone never stores a value that violates the Phone predicate.
C1_PhonesAlwaysValid ==
    \A i \in 1..Len(data) : \A j \in 1..Len(data[i].rec.phones) :
        PhonePredicate(data[i].rec.phones[j])

\* C2: write_to_file followed by read_contacts_from_file gives back the same
\* book: the same names in the same order, each with the same ordered phone
\* list and the same birthday.
C2_RoundTrip ==
    [][(last.op = "write_to_file" /\ last'.op = "read_contacts_from_file")
          => /\ last'.out.exc = NoExc
             /\ Len(data') = Len(data)
             /\ \A i \in 1..Len(data) :
                   /\ data'[i].key = data[i].key
                   /\ data'[i].rec.name = data[i].rec.name
                   /\ data'[i].rec.phones = data[i].rec.phones
                   /\ data'[i].rec.birthday = data[i].rec.birthday]_vars

\* a book read back from its own save: two records in non-alphabetical order,
\* one with two different phones in order, the other with a birthday
C2_Witness ==
    /\ last.op = "read_contacts_from_file"
    /\ file = write_to_file(data)
    /\ Len(data) = 2
    /\ data[1].key = Bo /\ data[1].rec.birthday # <<>>
    /\ data[2].key = An /\ data[2].rec.phones = <<P2, P1>>

RECURSIVE Flatten(_)
Flatten(pages) == IF pages = <<>> THEN <<>> ELSE pages[1] \o Flatten(Tail(pages))

\* C3: for page_size >= 1 the pages of iterate(page_size), concatenated, are
\* exactly the records in insertion order; every page but the last has
\* page_size records, the last has 1..page_size, an empty book has no page.
C3_PagesPartition ==
    (gen.state = "exhausted" /\ gen.size >= 1)
        => /\ Flatten(gen.pages) = [i \in 1..Len(data) |-> data[i].rec]
           /\ \A k \in 1..(Len(gen.pages) - 1) : Len(gen.pages[k]) = gen.size
           /\ Len(gen.pages) > 0
                 => Len(gen.pages[Len(gen.pages)]) \in 1..gen.size
           /\ Len(data) = 0 => gen.pages = <<>>

\* three records drawn two at a time: pages of sizes 2 and 1
C3_Witness ==
    /\ gen.state = "exhausted"
    /\ gen.size = 2
    /\ Len(data) = 3
    /\ Len(gen.pages) = 2
    /\ Len(gen.pages[1]) = 2 /\ Len(gen.pages[2]) = 1

\* q occurs in s as a contiguous run of characters
IsSubstring(q, s) ==
    \E i \in 1..(Len(s) - Len(q) + 1) : SubSeq(s, i, i + Len(q) - 1) = q

\* positions of the book whose record has q in its name or in some phone
Matching(q) ==
    {i \in 1..Len(data) :
        \/ IsSubstring(q, data[i].rec.name)
        \/ \E j \in 1..Len(data[i].rec.phones) : IsSubstring(q, data[i].rec.phones[j])}

\* C4: search(query) returns exactly the records whose name or some phone
\* contains query (case-sensitive), each once, in insertion order.
C4_SearchExact ==
    last.op = "search"
        => /\ Len(last.out.ret) = Cardinality(Matching(last.args[1]))
           /\ \A k \in 1..Len(last.out.ret) :
                 \E i \in Matching(last.args[1]) :
                    /\ last.out.ret[k] = data[i].rec
                    /\ Cardinality({h \in Matching(last.args[1]) : h < i}) = k - 1

\* a search that finds one record through a phone and leaves the other out
C4_Witness ==
    /\ last.op = "search"
    /\ Len(data) = 2
    /\ Len(last.out.ret) = 1
    /\ ~IsSubstring(last.args[1], last.out.ret[1].name)
    /\ last.args[1] # <<>>

\* C5: edit_phone(old, new) on a record none of whose phones is old fails
\* with "Phone number to be edited was not found" and leaves the phone list
\* unchanged.
C5_EditAbsentUnchanged ==
    [][(/\ last'.op = "edit_phone"
        /\ find(data, last'.args[1]) # <<>>
        /\ \A j \in 1..Len(find(data, last'.args[1])[1].phones) :
              find(data, last'.args[1])[1].phones[j] # last'.args[2])
          => /\ last'.out.exc = "ValueError"
             /\ last'.out.msg = EditNotFoundMsg
             /\ data' = data]_vars

\* a failed edit_phone on a record that holds two phones
C5_Witness ==
    /\ last.op = "edit_phone"
    /\ last.out.exc = "ValueError"
    /\ Len(RecordOf(last.args[1]).phones) = 2
    /\ \A j \in 1..2 : RecordOf(last.args[1]).phones[j] # last.args[2]

\* the stream of a finished write_to_file
Complete(f) ==
    f.exists /\ Len(f.bytes) > HeaderLen /\ f.bytes[Len(f.bytes)].op = "STOP"

\* C6: read_contacts_from_file never raises; a missing, empty or truncated
\* file gives a book with zero entries, and a non-empty book comes only from
\* a complete saved state.
C6_ReadNeverRaises ==
    last.op = "read_contacts_from_file"
        => /\ last.out.exc = NoExc
           /\ ~Complete(file) => data = <<>>

ExitCommands == {<<W_good, W_bye>>, <<W_close>>, <<W_exit>>}

\* C7: every exit command saves the book and ends the program with
\* "Good bye!"; at every graceful end the file holds the in-memory book, and
\* no contact is dropped on the way there.
C7_ExitSaves ==
    [][pc = "prompt"
          => /\ (last'.op = "command" /\ last'.args \in ExitCommands)
                   => /\ pc' = "exited"
                      /\ last'.out.exc = NoExc
                      /\ last'.out.ret[1] = Str("Good bye!", <<>>)
                      /\ data' = data
             /\ pc' = "exited" => file' = write_to_file(data')
             /\ pc' \in {"prompt", "exited"}
                   => \A i \in 1..Len(data) : KeyIndex(data', data[i].key) # 0]_vars

\* the program has ended on "good bye" with two contacts, saved
C7_Witness ==
    /\ pc = "exited"
    /\ last.op = "command"
    /\ last.args = <<W_good, W_bye>>
    /\ Len(data) = 2
    /\ file = write_to_file(data)

\* C8: find_phone(number) never throws, whatever number is: it returns the
\* first Phone whose value equals number, or None when there is none.
C8_FindPhoneNeverThrows ==
    last.op = "find_phone"
        => /\ last.out.exc = NoExc
           /\ IF \E j \in 1..Len(RecordOf(last.args[1]).phones) :
                    RecordOf(last.args[1]).phones[j] = last.args[2]
              THEN /\ last.out.tag = "value"
                   /\ last.out.ret[1].value = last.args[2]
                   /\ \A j \in 1..(last.out.ret[1].index - 1) :
                         RecordOf(last.args[1]).phones[j] # last.args[2]
              ELSE last.out.tag = "None"

\* C9: the page sequence of iterate(page_size) is finite for every page_size,
\* 0 and negative values included: every page takes at least one record, so
\* a generator over n records yields at most n pages before it is exhausted.
C9_PagesBounded ==
    gen.state \in {"suspended", "exhausted"} => Len(gen.pages) <= gen.all_records

\* days from today to the next date with the birthday's day and month
DaysToNextOccurrence(today, text) ==
    LET t == Ordinal(today[1], today[2], today[3])
        years == {y \in today[1]..(today[1] + 8) :
                     /\ ValidDate(y, text[2], text[1])
                     /\ Ordinal(y, text[2], text[1]) >= t}
        year == CHOOSE y \in years : \A z \in years : y <= z
    IN Ordinal(year, text[2], text[1]) - t

\* C10: for a record with a valid Birthday and any current date,
\* days_to_birthday returns, without raising, the non-negative number of days
\* from today to the next occurrence of the stored day and month.
C10_DaysToBirthday ==
    (last.op = "days_to_birthday" /\ RecordOf(last.args[1]).birthday # <<>>)
        => /\ last.out.exc = NoExc
           /\ last.out.tag = "value"
           /\ last.out.ret[1] >= 0
           /\ last.out.ret[1] =
                 DaysToNextOccurrence(last.args[2], RecordOf(last.args[1]).birthday[1].text)

\* an add or change command line carrying a phone that breaks the Phone predicate
BadPhoneCommand(tokens) ==
    /\ Len(tokens) = 3
    /\ lower(tokens[1]) \in {W_add, W_change}
    /\ ~PhonePredicate(tokens[3])

\* C11: an operation given an out-of-contract Name or Phone value (Record
\* construction, add_phone, edit_phone, the add and change commands) is
\* rejected and leaves the book's names and every existing record's phone
\* list as they were.
C11_RejectedLeavesBookUnmodified ==
    [][(\/ last'.op = "Record" /\ last'.args[1] = EmptyStr
        \/ last'.op = "add_phone" /\ ~PhonePredicate(last'.args[2])
        \/ last'.op = "edit_phone" /\ ~PhonePredicate(last'.args[3])
        \/ last'.op = "command" /\ BadPhoneCommand(last'.args))
          => /\ Keys(data') = Keys(data)
             /\ \A i \in 1..Len(data) : data'[i].rec.phones = data[i].rec.phones]_vars

\* C12: in every state reached by add_record, delete, phone edits, save and
\* load, every key of the mapping equals the name of the Record stored under it.
C12_KeyIsRecordName ==
    \A i \in 1..Len(data) : data[i].key = data[i].rec.name

\* a book of two records that has just been loaded from its file
C12_Witness ==
    /\ last.op = "read_contacts_from_file"
    /\ last.out.exc = NoExc
    /\ Len(data) = 2
    /\ data[1].key = An /\ data[2].key = Bo
    /\ data[1].rec.phones # <<>>

\* C13: after a successful add of an alphabetic name and a 10-digit phone,
\* find(name) returns a Record with that name and the phone list [phone],
\* rendering as "Contact name: {name}, phones: {phone}"; find on a name that
\* is not in the book (never added, or deleted) returns None without raising.
C13_AddThenFind ==
    /\ (last.op = "add_contact" /\ isalpha(last.args[1]) /\ PhonePredicate(last.args[2]))
          => /\ last.out.exc = NoExc
             /\ last.out.ret[1].text = "Contact {name} added."
             /\ find(data, last.args[1]) # <<>>
             /\ find(data, last.args[1])[1].name = last.args[1]
             /\ find(data, last.args[1])[1].phones = <<last.args[2]>>
             /\ record_str(find(data, last.args[1])[1]).text
                   = "Contact name: {name}, phones: {phones}"
             /\ record_str(find(data, last.args[1])[1]).args = <<last.args[1], last.args[2]>>
    /\ (last.op = "find" /\ \A i \in 1..Len(data) : data[i].rec.name # last.args[1])
          => /\ last.out.exc = NoExc
             /\ last.out.tag = "None"
             /\ last.out.ret = <<>>

\* a contact added over one of the same name that held two phones is found
\* with the new phone alone
C13_Witness ==
    /\ last.op = "add_contact"
    /\ last.out.ret[1].text = "Contact {name} added."
    /\ Len(data) = 2
    /\ data[1].key = last.args[1]
    /\ data[1].rec.phones = <<P2>>
    /\ Len(data[2].rec.phones) = 2

\* C14: a successful edit_phone(old, new) changes exactly one position: the
\* first phone equal to old becomes new, every other phone (later duplicates
\* of old included) keeps its value and place, and the length is unchanged.
C14_EditExactlyOne ==
    [][(last'.op = "edit_phone" /\ last'.out.exc = NoExc)
          => LET before == find(data, last'.args[1])[1].phones
                 after == find(data', last'.args[1])[1].phones
             IN /\ Len(after) = Len(before)
                /\ \E k \in 1..Len(before) :
                      /\ before[k] = last'.args[2]
                      /\ \A j \in 1..(k - 1) : before[j] # last'.args[2]
                      /\ after[k] = last'.args[3]
                      /\ \A j \in 1..Len(before) : j # k => after[j] = before[j]]_vars

\* an edit of the first of two equal phones: the second still holds old
C14_Witness ==
    /\ last.op = "edit_phone"
    /\ last.out.exc = NoExc
    /\ last.args[2] # last.args[3]
    /\ RecordOf(last.args[1]).phones = <<last.args[3], last.args[2]>>

\* the step stores a new Record: add_record, or an add_contact that succeeded
StoresRecord(call) ==
    \/ call.op = "add_record"
    \/ call.op = "add_contact" /\ call.out.ret[1].text = "Contact {name} added."

\* the Record such a call has built: add_record(Record(name, birthday)) has no
\* phone, add_contact(name, phone) has the one phone and no birthday
IsStoredRecord(rec, call) ==
    /\ rec.name = call.args[1]
    /\ IF call.op = "add_record"
       THEN /\ rec.phones = <<>>
            /\ Len(rec.birthday) = Len(call.args[2])
            /\ call.args[2] # <<>> => rec.birthday[1].text = call.args[2][1]
       ELSE /\ rec.phones = <<call.args[2]>>
            /\ rec.birthday = <<>>

\* C15: add_record for a name already present replaces the prior Record
\* without merging, leaves every other entry unchanged and keeps the number
\* of entries; for a new name it adds exactly one entry at the end.
C15_AddRecordReplaces ==
    [][StoresRecord(last')
          => IF \E i \in 1..Len(data) : data[i].key = last'.args[1]
             THEN /\ Len(data') = Len(data)
                  /\ \A i \in 1..Len(data) :
                        IF data[i].key = last'.args[1]
                        THEN /\ data'[i].key = last'.args[1]
                             /\ IsStoredRecord(data'[i].rec, last')
                             /\ find(data', last'.args[1]) = <<data'[i].rec>>
                        ELSE data'[i] = data[i]
             ELSE /\ Len(data') = Len(data) + 1
                  /\ SubSeq(data', 1, Len(data)) = data
                  /\ data'[Len(data')].key = last'.args[1]
                  /\ IsStoredRecord(data'[Len(data')].rec, last')]_vars

\* add_record on the first of two names: it is still first, with no phone and
\* the birthday just given, and the other entry still has its two phones
C15_Witness ==
    /\ last.op = "add_record"
    /\ Len(data) = 2
    /\ data[1].key = last.args[1]
    /\ data[1].rec.phones = <<>>
    /\ data[1].rec.birthday # <<>>
    /\ Len(data[2].rec.phones) = 2

\* C16: remove_phone(number) removes exactly the first phone equal to number,
\* keeping later duplicates and the order of the rest; when no phone equals
\* number it raises nothing and leaves the list unchanged.
C16_RemoveFirstOnly ==
    [][last'.op = "remove_phone"
          => LET before == find(data, last'.args[1])[1].phones
                 after == find(data', last'.args[1])[1].phones
             IN /\ last'.out.exc = NoExc
                /\ IF \E k \in 1..Len(before) : before[k] = last'.args[2]
                   THEN \E k \in 1..Len(before) :
                           /\ before[k] = last'.args[2]
                           /\ \A j \in 1..(k - 1) : before[j] # last'.args[2]
                           /\ Len(after) = Len(before) - 1
                           /\ \A j \in 1..Len(after) :
                                 after[j] = IF j < k THEN before[j] ELSE before[j + 1]
                   ELSE after = before]_vars

\* remove_phone on a list of two equal phones: one of them is left
C16_Witness ==
    /\ last.op = "remove_phone"
    /\ RecordOf(last.args[1]).phones = <<last.args[2]>>

\* C17: for every non-empty token list parser_command returns a response
\* string ("Invalid command." for what is not a known command) and the loop
\* goes on or ends on a saved book; no unrecognised or mis-arity input ends
\* the program with an uncaught error.
C17_EveryLineAnswered ==
    (last.op = "command" /\ Len(last.args) > 0)
        => /\ last.out.exc = NoExc
           /\ last.out.tag = "str"
           /\ pc \in {"prompt", "exited"}
           /\ (lower(last.args[1]) \notin CommandKeys
               /\ (Len(last.args) # 2
                   \/ Joined(lower(last.args[1]), lower(last.args[2])) \notin CommandKeys))
                 => last.out.ret[1].text = "Invalid command."

====
